---- MODULE Spec2Model ----
(***************************************************************************)
(* osmborder_filter: a three-pass filter over an OSM file.  Pass 1 selects *)
(* boundary relations and collects their way members, pass 2 selects those *)
(* ways (rewriting tags from a changefile) and collects their nodes, pass  *)
(* 3 selects those nodes.  Source: src/src/osmborder_filter.cpp.           *)
(*                                                                         *)
(* The command line is taken to be well formed (-o given, one input file); *)
(* the changefile (-c) is optional.  Identifiers are small positive        *)
(* integers; JSON numbers are integers.                                    *)
(*                                                                         *)
(* Spec is the run of the program.  SpecJson is the run up to the end of   *)
(* the changefile load, on a larger family of changefiles.  SpecTwice is   *)
(* the program run twice on one input file, for the properties that        *)
(* compare two runs.                                                       *)
(***************************************************************************)
EXTENDS Integers, Sequences, FiniteSets, TLC

VARIABLES
    pc,             \* position of main(): "args", "pass1", "pass2", "pass3", "done";
                    \* "fault": stopped by a trap; "fatal": left by std::exit (line 379)
    changefile,     \* the document named by -c (given = FALSE: no -c option)
    relations,      \* the input file's relations, ascending by id
    ways,           \* the input file's ways, ascending by id
    nodes,          \* the input file's nodes, ascending by id
    yesborder,      \* idset yesborder (line 199)
    noborder,       \* idset noborder (line 201)
    waymap,         \* idmap waymap (line 203)
    no_json_err,    \* bool no_json_err (line 204)
    cerr,           \* lines written to std::cerr
    vout,           \* messages handed to the VerboseOutput stream
    way_ids,        \* std::vector way_ids, elements [0, size)
    node_ids,       \* std::vector node_ids, elements [0, size)
    first,          \* the merge cursor of the current pass (1-based index)
    last,           \* end of the deduplicated range, as returned by std::unique
    i,              \* index of the entity the current loop is at: between two
                    \* iterations the next one the Reader delivers
    output_buffer,  \* osmium::memory::Buffer output_buffer (line 276)
    writer,         \* osmium::io::Writer: pending buffer, file contents, status
    end_reads       \* TRUE once *first was read while first = last

vars == <<pc, changefile, relations, ways, nodes, yesborder, noborder, waymap,
          no_json_err, cerr, vout, way_ids, node_ids, first, last, i,
          output_buffer, writer, end_reads>>

-----------------------------------------------------------------------------
(* Bounds of the model *)

\* longest "relations" and "ways" array of the generated changefiles
MaxEntries == 2

\* way identifiers of the input file are drawn from 1..MaxWayId
MaxWayId == 3

\* node identifiers of the input file are drawn from 1..MaxNodeId
MaxNodeId == 2

\* number of items the Writer's pending buffer holds before it is flushed
WriterBufCap == 2

\* relation identifiers of the input file
RelIds == {1, 2}

-----------------------------------------------------------------------------
(* Sequences *)

RECURSIVE SeqOfSet(_)
\* the elements of a finite set of integers, ascending
SeqOfSet(S) ==
    IF S = {} THEN <<>>
    ELSE LET m == CHOOSE x \in S : \A y \in S : x <= y
         IN  <<m>> \o SeqOfSet(S \ {m})

RECURSIVE Insert(_, _)
Insert(x, s) ==
    IF s = <<>> THEN <<x>>
    ELSE IF x <= Head(s) THEN <<x>> \o s
    ELSE <<Head(s)>> \o Insert(x, Tail(s))

\* a vector left in the order of insertion
Unsorted(s) == s

RECURSIVE Sort(_)
\* std::sort on a vector of identifiers
Sort(s) == IF s = <<>> THEN <<>> ELSE Insert(Head(s), Sort(Tail(s)))

\* std::adjacent_find: index of the first element equal to its successor,
\* Len(a)+1 when there is none
AdjacentFind(a) ==
    IF \E k \in 1..(Len(a) - 1) : a[k] = a[k + 1]
    THEN CHOOSE k \in 1..(Len(a) - 1) :
            /\ a[k] = a[k + 1]
            /\ \A j \in 1..(k - 1) : a[j] # a[j + 1]
    ELSE Len(a) + 1

RECURSIVE UniqueLoop(_, _, _)
\* the copy loop of std::unique: dest is the last kept slot, f the slot examined
UniqueLoop(a, dest, f) ==
    IF f > Len(a) THEN [arr |-> a, last |-> dest + 1]
    ELSE IF a[dest] # a[f]
         THEN UniqueLoop([a EXCEPT ![dest + 1] = a[f]], dest + 1, f + 1)
         ELSE UniqueLoop(a, dest, f + 1)

\* std::unique on a vector: the vector keeps its size, the kept elements are
\* moved to the front, `last` is the end of the kept range and the slots from
\* `last` on keep whatever the copy loop left in them
Unique(a) ==
    LET k == AdjacentFind(a)
    IN  IF k > Len(a) THEN [arr |-> a, last |-> Len(a) + 1]
        ELSE UniqueLoop(a, k, k + 2)

-----------------------------------------------------------------------------
(* Tags *)

\* the keys used by the model, in std::map<std::string, ...> order
KeyOrder == <<"blacklist", "boundary", "highway", "name", "note", "osm_id", "whitelist">>

\* TagList::has_tag(key, value)
has_tag(tags, key, value) == \E k \in 1..Len(tags) : tags[k] = <<key, value>>

\* the entries of a strmap, in iteration order
MapEntries(tagmap) ==
    LET ks == SelectSeq(KeyOrder, LAMBDA k : k \in DOMAIN tagmap)
    IN  [k \in 1..Len(ks) |-> <<ks[k], tagmap[ks[k]]>>]

\* RewriteHandler::copy_tags: copy existing tags
copy_tags(tags) == tags

\* RewriteHandler::copy_tags with a tagmap: every existing tag is added, then
\* every entry of the tagmap is added (TagListBuilder::add_tag appends)
copy_tags_override(tags, tagmap) == tags \o MapEntries(tagmap)

-----------------------------------------------------------------------------
(* RewriteHandler *)

\* a rewritten way that loses its node references
way_changed_no_nodes(way, tagmap) ==
    [kind |-> "way", id |-> way.id, version |-> 0,
     tags |-> copy_tags_override(way.tags, tagmap), nodes |-> <<>>]

\* RewriteHandler::way(way): the way handler for unchanged.  The builder sets
\* the id, the tags and the node references; the other attributes of the way
\* (here its version) are left at the builder's default
way_unchanged(way) ==
    [kind |-> "way", id |-> way.id, version |-> 0,
     tags |-> copy_tags(way.tags), nodes |-> way.nodes]

\* RewriteHandler::way(way, tagmap): the way handler for changed
way_changed(way, tagmap) ==
    [kind |-> "way", id |-> way.id, version |-> 0,
     tags |-> copy_tags_override(way.tags, tagmap), nodes |-> way.nodes]

-----------------------------------------------------------------------------
(* The changefile *)

JNum(n)  == [type |-> "number",  num |-> n, bool |-> FALSE, str |-> ""]
JBool(b) == [type |-> "boolean", num |-> 0, bool |-> b,     str |-> ""]
JStr(s)  == [type |-> "string",  num |-> 0, bool |-> FALSE, str |-> s]

\* an element of a "relations" or "ways" array that is a JSON object
JObj(f) == [object |-> TRUE, fields |-> f]

\* an element that is not an object (a number, a string, ...)
JScalar == [object |-> FALSE, fields |-> [k \in {} |-> JNum(0)]]

\* a top-level member that is an array / that is missing or not an array
JArray(items) == [array |-> TRUE, items |-> items]
JNoArray == [array |-> FALSE, items |-> <<>>]

\* a readable document whose top level is an object
JDoc(rels, ws) ==
    [given |-> TRUE, readable |-> TRUE, top |-> "object", relations |-> rels, ways |-> ws]

EmptyWaymap == [w \in {} |-> <<>>]

\* what jsonize has put into its three outputs so far; ok = no exception yet
Loaded(ok, yes, no, wm) == [ok |-> ok, yes |-> yes, no |-> no, waymap |-> wm]

\* lines 87-93 reading the identifier before the flags are looked at
RelationsEntryEager(acc, e) ==
    IF ~e.object \/ "osm_id" \notin DOMAIN e.fields THEN acc
    ELSE
    LET f    == e.fields
        id   == f["osm_id"]
        hasW == "whitelist" \in DOMAIN f
        hasB == "blacklist" \in DOMAIN f
        throws == \/ id.type # "number"
                  \/ hasW /\ f["whitelist"].type # "boolean"
                  \/ hasB /\ f["blacklist"].type # "boolean"
    IN  IF throws THEN Loaded(FALSE, acc.yes, acc.no, acc.waymap)
        ELSE Loaded(TRUE,
                    IF hasW /\ f["whitelist"].bool THEN acc.yes \cup {id.num} ELSE acc.yes,
                    IF hasB /\ f["blacklist"].bool THEN acc.no \cup {id.num} ELSE acc.no,
                    acc.waymap)

\* one iteration of the "relations" loop (lines 87-93)
RelationsEntry(acc, e) ==
    IF ~e.object \/ "osm_id" \notin DOMAIN e.fields THEN acc
    ELSE
    LET f    == e.fields
        id   == f["osm_id"]
        hasW == "whitelist" \in DOMAIN f
        hasB == "blacklist" \in DOMAIN f
        \* line 91: get<bool>() throws on a non-boolean, get<long>() on a non-number
        wThrows == hasW /\ (f["whitelist"].type # "boolean"
                            \/ (f["whitelist"].bool /\ id.type # "number"))
        yes1 == IF hasW /\ ~wThrows /\ f["whitelist"].bool
                THEN acc.yes \cup {id.num} ELSE acc.yes
        bThrows == hasB /\ (f["blacklist"].type # "boolean"
                            \/ (f["blacklist"].bool /\ id.type # "number"))
        no1  == IF hasB /\ ~bThrows /\ f["blacklist"].bool
                THEN acc.no \cup {id.num} ELSE acc.no
    IN  IF wThrows THEN Loaded(FALSE, acc.yes, acc.no, acc.waymap)
        ELSE IF bThrows THEN Loaded(FALSE, yes1, acc.no, acc.waymap)
        ELSE Loaded(TRUE, yes1, no1, acc.waymap)

\* lines 99-108 keeping the record an identifier already has (map::insert)
WaysEntryKeepFirst(acc, e) ==
    IF ~e.object \/ "osm_id" \notin DOMAIN e.fields THEN acc
    ELSE
    LET f    == e.fields
        id   == f["osm_id"]
        smap == [k \in {x \in DOMAIN f : x # "osm_id" /\ f[x].type = "string"}
                    |-> f[k].str]
    IN  IF id.type # "number" THEN Loaded(FALSE, acc.yes, acc.no, acc.waymap)
        ELSE Loaded(TRUE, acc.yes, acc.no,
                    [w \in DOMAIN acc.waymap \cup {id.num} |->
                        IF w \in DOMAIN acc.waymap THEN acc.waymap[w] ELSE smap])

\* one iteration of the "ways" loop (lines 99-108)
WaysEntry(acc, e) ==
    IF ~e.object \/ "osm_id" \notin DOMAIN e.fields THEN acc
    ELSE
    LET f    == e.fields
        id   == f["osm_id"]
        smap == [k \in {x \in DOMAIN f : x # "osm_id" /\ f[x].type = "string"}
                    |-> f[k].str]
    IN  IF id.type # "number" THEN Loaded(FALSE, acc.yes, acc.no, acc.waymap)
        ELSE Loaded(TRUE, acc.yes, acc.no,
                    [w \in DOMAIN acc.waymap \cup {id.num} |->
                        IF w = id.num THEN smap ELSE acc.waymap[w]])

RECURSIVE RelationsLoop(_, _)
\* the loop over the "relations" array (lines 86-94), left at the first exception
RelationsLoop(acc, items) ==
    IF ~acc.ok \/ items = <<>> THEN acc
    ELSE RelationsLoop(RelationsEntry(acc, Head(items)), Tail(items))

RECURSIVE WaysLoop(_, _)
\* the loop over the "ways" array (lines 98-109), left at the first exception
WaysLoop(acc, items) ==
    IF ~acc.ok \/ items = <<>> THEN acc
    ELSE WaysLoop(WaysEntry(acc, Head(items)), Tail(items))

\* the try block of jsonize (lines 79-111): the outputs as they stand when the
\* block is left, by return (ok) or by an exception (~ok)
jsonize_try(doc) ==
    IF ~doc.readable \/ doc.top # "object"
    THEN Loaded(FALSE, {}, {}, EmptyWaymap)
    ELSE
    LET r == IF doc.relations.array
             THEN RelationsLoop(Loaded(TRUE, {}, {}, EmptyWaymap), doc.relations.items)
             ELSE Loaded(TRUE, {}, {}, EmptyWaymap)
    IN  IF r.ok /\ doc.ways.array THEN WaysLoop(r, doc.ways.items) ELSE r

\* jsonize (lines 76-120): populates the outputs, blanks them on an exception
jsonize(doc) ==
    LET r == jsonize_try(doc)
    IN  IF r.ok THEN r ELSE Loaded(FALSE, {}, {}, EmptyWaymap)

-----------------------------------------------------------------------------
(* The input file and the changefiles the model runs on *)

Administrative == <<"boundary", "administrative">>

Member(type, ref) == [type |-> type, ref |-> ref]

\* the relations the input file may hold under one identifier
RelationShapes(id) ==
    { [kind |-> "relation", id |-> id, version |-> 1, tags |-> <<Administrative>>,
       members |-> <<Member("way", 2), Member("node", 3), Member("way", 1)>>],
      [kind |-> "relation", id |-> id, version |-> 1, tags |-> <<>>,
       members |-> <<Member("way", 1), Member("relation", 2), Member("way", 1)>>],
      [kind |-> "relation", id |-> id, version |-> 1, tags |-> <<<<"boundary", "maritime">>>>,
       members |-> <<Member("way", 3)>>],
      [kind |-> "relation", id |-> id, version |-> 1, tags |-> <<<<"name", "Y">>, Administrative>>,
       members |-> <<>>] }

\* the way the input file holds under an identifier
WayOf(id) ==
    [kind |-> "way", id |-> id, version |-> 1,
     tags |-> IF id = 1 THEN << <<"name", "Y">>, <<"highway", "Z">> >>
              ELSE IF id = 2 THEN <<>>
              ELSE << <<"highway", "Z">> >>,
     nodes |-> IF id = 1 THEN <<2, 1, 2>>
               ELSE IF id = 2 THEN <<1>>
               ELSE IF id = 3 THEN <<1, 1>>
               ELSE <<>>]

\* the node the input file holds under an identifier
NodeOf(id) ==
    [kind |-> "node", id |-> id, version |-> 1, tags |-> <<>>,
     location |-> [lon |-> id, lat |-> 0 - id]]

\* streams ascending by identifier, identifiers unique (the file format's order)
RelationStreams ==
    UNION { { [k \in 1..Len(SeqOfSet(S)) |-> f[SeqOfSet(S)[k]]] :
                f \in { g \in [S -> UNION { RelationShapes(r) : r \in S }] :
                          \A r \in S : g[r] \in RelationShapes(r) } } :
            S \in SUBSET RelIds }

WayStreams ==
    { [k \in 1..Len(SeqOfSet(S)) |-> WayOf(SeqOfSet(S)[k])] : S \in SUBSET (1..MaxWayId) }

NodeStreams ==
    { [k \in 1..Len(SeqOfSet(S)) |-> NodeOf(SeqOfSet(S)[k])] : S \in SUBSET (1..MaxNodeId) }

\* no -c option on the command line
NoChangefile ==
    [given |-> FALSE, readable |-> FALSE, top |-> "object",
     relations |-> JNoArray, ways |-> JNoArray]

\* a file that cannot be read or is not JSON
DocUnreadable ==
    [given |-> TRUE, readable |-> FALSE, top |-> "object",
     relations |-> JNoArray, ways |-> JNoArray]

\* relation 1 whitelisted, way 1 renamed
DocA ==
    JDoc(JArray(<< JObj([osm_id |-> JNum(1), whitelist |-> JBool(TRUE)]),
                   JObj([osm_id |-> JNum(2), blacklist |-> JBool(FALSE)]) >>),
         JArray(<< JObj([osm_id |-> JNum(1), name |-> JStr("X"), note |-> JNum(5)]) >>))

\* relation 1 whitelisted and blacklisted, way 2 named
DocB ==
    JDoc(JArray(<< JObj([osm_id |-> JNum(1), whitelist |-> JBool(TRUE),
                         blacklist |-> JBool(TRUE)]),
                   JScalar,
                   JObj([whitelist |-> JBool(TRUE)]) >>),
         JArray(<< JObj([osm_id |-> JNum(2), name |-> JStr("X")]) >>))

\* relation 2 blacklisted, no "ways" member
DocC ==
    JDoc(JArray(<< JObj([osm_id |-> JNum(2), blacklist |-> JBool(TRUE)]),
                   JObj([osm_id |-> JNum(1), whitelist |-> JBool(FALSE)]) >>),
         JNoArray)

\* relation 1 whitelisted, relation 2 blacklisted, way 1 renamed, then a ways
\* entry whose osm_id is a string
DocLateError ==
    JDoc(JArray(<< JObj([osm_id |-> JNum(1), whitelist |-> JBool(TRUE)]),
                   JObj([osm_id |-> JNum(2), blacklist |-> JBool(TRUE)]) >>),
         JArray(<< JObj([osm_id |-> JNum(1), name |-> JStr("X")]),
                   JObj([osm_id |-> JStr("w"), name |-> JStr("X")]) >>))

Changefiles == {NoChangefile, DocUnreadable, DocA, DocB, DocC, DocLateError}

\* a readable document whose top level is an array: jout["relations"] throws
DocTopArray ==
    [given |-> TRUE, readable |-> TRUE, top |-> "array",
     relations |-> JNoArray, ways |-> JNoArray]

\* the elements the generated "relations" arrays are made of
RelationsElements ==
    { JObj([osm_id |-> JNum(1), whitelist |-> JBool(TRUE)]),
      JObj([osm_id |-> JNum(2), blacklist |-> JBool(TRUE)]),
      JObj([osm_id |-> JNum(1), whitelist |-> JBool(FALSE), blacklist |-> JBool(TRUE)]),
      JObj([osm_id |-> JStr("x"), blacklist |-> JBool(FALSE)]),
      JObj([osm_id |-> JStr("x"), whitelist |-> JBool(TRUE)]),
      JObj([osm_id |-> JNum(2), whitelist |-> JStr("yes")]),
      JObj([whitelist |-> JStr("yes")]),
      JScalar }

\* the elements the generated "ways" arrays are made of
WaysElements ==
    { JObj([osm_id |-> JNum(1), name |-> JStr("X")]),
      JObj([osm_id |-> JNum(1), highway |-> JStr("Z"), note |-> JNum(5)]),
      JObj([osm_id |-> JNum(2)]),
      JObj([osm_id |-> JStr("w"), name |-> JStr("X")]),
      JObj([name |-> JStr("X")]) }

\* the sequences over S of length 0..n
SeqsUpTo(S, n) == UNION { [1..k -> S] : k \in 0..n }

\* the generated changefiles
JsonDocs ==
    { JDoc(JArray(rs), JArray(ws)) :
        rs \in SeqsUpTo(RelationsElements, MaxEntries),
        ws \in SeqsUpTo(WaysElements, MaxEntries) }
    \cup {DocUnreadable, DocTopArray, JDoc(JNoArray, JNoArray)}

-----------------------------------------------------------------------------
(* osmium::io::Writer *)

\* Writer::operator()(const Item&): the item goes to the pending buffer, which
\* is flushed to the file first when it is full
WriterItem(w, item) ==
    IF Len(w.m_buffer) >= WriterBufCap
    THEN [w EXCEPT !.file = w.file \o w.m_buffer, !.m_buffer = <<item>>]
    ELSE [w EXCEPT !.m_buffer = Append(w.m_buffer, item)]

\* Writer::operator()(Buffer&&): the pending buffer is flushed, then the
\* buffer handed in is written
WriterBuffer(w, buffer) ==
    [w EXCEPT !.file = w.file \o w.m_buffer \o buffer, !.m_buffer = <<>>]

\* Writer::close(): the pending buffer is flushed and the file closed
WriterClose(w) ==
    [w EXCEPT !.file = w.file \o w.m_buffer, !.m_buffer = <<>>, !.status = "closed"]

\* Writer::~Writer(), run when an exception leaves the try block of main: a
\* Writer that is in order is closed as by close(), one that failed is left
WriterDestroy(w) == IF w.status = "open" THEN WriterClose(w) ELSE w

\* a Writer whose write failed: nothing more reaches the file
WriterFailed(w) == [w EXCEPT !.status = "error"]

Message(text, id) == [text |-> text, id |-> id]

-----------------------------------------------------------------------------
(* The merge of a sorted stream with the sorted target list *)

RECURSIVE AdvanceToVectorEnd(_, _, _, _)
\* the while loop stopping at the vector's end() instead of `last`
AdvanceToVectorEnd(ids, f, l, id) ==
    IF f <= Len(ids) /\ ids[f] < id THEN AdvanceToVectorEnd(ids, f + 1, l, id) ELSE f

RECURSIVE Advance(_, _, _, _)
\* the while loop of lines 326-328 / 361-363: the cursor it ends on
Advance(ids, f, l, id) ==
    IF f # l /\ ids[f] < id THEN Advance(ids, f + 1, l, id) ELSE f

\* what reading *first can give when first is end() of a vector that holds
\* elements: the read is outside the vector's elements, so it traps or gives
\* any value
PastEndReads(maxId) ==
    {[trap |-> TRUE, value |-> 0]} \cup {[trap |-> FALSE, value |-> v] : v \in 0..maxId}

\* what reading *first gives at cursor c.  Inside the vector it is the element
\* (from `last` on, the element std::unique left there).  A vector that never
\* held an element has allocated nothing and its begin() is a null pointer:
\* the read traps.
Deref(ids, c, maxId) ==
    IF c <= Len(ids) THEN {[trap |-> FALSE, value |-> ids[c]]}
    ELSE IF ids = <<>> THEN {[trap |-> TRUE, value |-> 0]}
    ELSE PastEndReads(maxId)

-----------------------------------------------------------------------------
(* main *)

Init ==
    /\ pc = "args"
    /\ changefile \in Changefiles
    /\ relations \in RelationStreams
    /\ ways \in WayStreams
    /\ nodes \in NodeStreams
    /\ yesborder = {}
    /\ noborder = {}
    /\ waymap = EmptyWaymap
    /\ no_json_err = TRUE
    /\ cerr = <<>>
    /\ vout = <<>>
    /\ way_ids = <<>>
    /\ node_ids = <<>>
    /\ first = 0
    /\ last = 0
    /\ i = 0
    /\ output_buffer = <<>>
    /\ writer = [status |-> "unopened", header |-> "", m_buffer |-> <<>>, file |-> <<>>]
    /\ end_reads = FALSE

\* lines 215-284: option -c loads the changefile, a failed load is reported
\* and the run goes on; the Writer is opened with the header
ParseArgs ==
    /\ pc = "args"
    /\ LET r == IF changefile.given THEN jsonize(changefile)
                ELSE Loaded(TRUE, {}, {}, EmptyWaymap)
       IN  /\ yesborder' = r.yes
           /\ noborder' = r.no
           /\ waymap' = r.waymap
           /\ no_json_err' = r.ok
           /\ cerr' = IF r.ok THEN cerr
                      ELSE Append(cerr, "changefile gave error, not using")
    /\ writer' = [writer EXCEPT !.status = "open", !.header = "osmborder_filter"]
    /\ vout' = Append(vout, Message("Reading relations", 0))
    /\ i' = 1
    /\ pc' = "pass1"
    /\ UNCHANGED <<changefile, relations, ways, nodes, way_ids, node_ids, first, last,
                   output_buffer, end_reads>>

\* line 291: the relation is in the deny-set only when it is not in the allow-set
is_rejected_unless_allowed(relation) ==
    relation.id \in noborder /\ relation.id \notin yesborder

\* line 291: noborder.find(relation.id()) != noborder.end()
is_rejected(relation) == relation.id \in noborder

\* line 295: yesborder.find(relation.id()) != yesborder.end()
add_anyway(relation) == relation.id \in yesborder

\* line 296 without the test of the tag
is_forced_untested(relation) == add_anyway(relation)

\* line 296: the relation is added although it lacks the tag
is_forced(relation) ==
    add_anyway(relation) /\ ~has_tag(relation.tags, "boundary", "administrative")

\* line 299: the relation is selected
is_selected(relation) ==
    add_anyway(relation) \/ has_tag(relation.tags, "boundary", "administrative")

\* lines 301-305 without the test of the member's type
all_members(relation) == [k \in 1..Len(relation.members) |-> relation.members[k].ref]

\* lines 301-305: the way members of a relation
way_members(relation) ==
    LET ms == SelectSeq(relation.members, LAMBDA rm : rm.type = "way")
    IN  [k \in 1..Len(ms) |-> ms[k].ref]

\* lines 290-307: the body of the relation loop, for the next relation
Pass1Relation ==
    /\ pc = "pass1"
    /\ i <= Len(relations)
    /\ LET relation == relations[i]
       IN  IF is_rejected(relation)
           THEN /\ vout' = Append(vout, Message("Rejected relation", relation.id))
                /\ UNCHANGED <<writer, way_ids>>
           ELSE /\ vout' = IF is_forced(relation)
                           THEN Append(vout, Message("Added relation", relation.id))
                           ELSE vout
                /\ IF is_selected(relation)
                   THEN /\ writer' = WriterItem(writer, relation)
                        /\ way_ids' = way_ids \o way_members(relation)
                   ELSE UNCHANGED <<writer, way_ids>>
    /\ i' = i + 1
    /\ UNCHANGED <<pc, changefile, relations, ways, nodes, yesborder, noborder, waymap,
                   no_json_err, cerr, node_ids, first, last, output_buffer, end_reads>>

\* lines 308-322: the relation Reader is closed, way_ids is sorted, the way
\* Reader is opened and the cursor set on the deduplicated range
Pass1End ==
    /\ pc = "pass1"
    /\ i > Len(relations)
    /\ LET u == Unique(Sort(way_ids))
       IN  /\ way_ids' = u.arr
           /\ last' = u.last
    /\ first' = 1
    /\ i' = 1
    /\ vout' = vout \o <<Message("Preparing way ID list", 0), Message("Reading ways", 0)>>
    /\ pc' = "pass2"
    /\ UNCHANGED <<changefile, relations, ways, nodes, yesborder, noborder, waymap,
                   no_json_err, cerr, node_ids, output_buffer, writer, end_reads>>

\* lines 333-335: the way as the handler writes it to the output buffer
rewrite_way(way) ==
    IF way.id \in DOMAIN waymap THEN way_changed(way, waymap[way.id])
    ELSE way_unchanged(way)

\* lines 324-344: the body of the way loop, for the next way
Pass2Way ==
    /\ pc = "pass2"
    /\ i <= Len(ways)
    /\ LET way == ways[i]
           c   == Advance(way_ids, first, last, way.id)
       IN  \E r \in Deref(way_ids, c, MaxWayId) :
            /\ end_reads' = (end_reads \/ c = last)
            /\ IF r.trap
               THEN /\ pc' = "fault"
                    /\ first' = c
                    /\ UNCHANGED <<i, output_buffer, node_ids>>
               ELSE /\ pc' = pc
                    /\ i' = i + 1
                    /\ IF way.id = r.value
                       THEN /\ output_buffer' = Append(output_buffer, rewrite_way(way))
                            /\ node_ids' = node_ids \o way.nodes
                            /\ first' = IF c # last THEN c + 1 ELSE c
                       ELSE /\ first' = c
                            /\ UNCHANGED <<output_buffer, node_ids>>
    /\ UNCHANGED <<changefile, relations, ways, nodes, yesborder, noborder, waymap,
                   no_json_err, cerr, vout, way_ids, last, writer>>

\* line 345 handing the ways to the file without flushing the pending buffer
Pass2EndUnflushed ==
    /\ pc = "pass2"
    /\ i > Len(ways)
    /\ writer' = [writer EXCEPT !.file = writer.file \o output_buffer]
    /\ output_buffer' = <<>>
    /\ LET u == Unique(Sort(node_ids))
       IN  /\ node_ids' = u.arr
           /\ last' = u.last
    /\ first' = 1
    /\ i' = 1
    /\ vout' = vout \o <<Message("Preparing node ID list", 0), Message("Reading nodes", 0)>>
    /\ pc' = "pass3"
    /\ UNCHANGED <<changefile, relations, ways, nodes, yesborder, noborder, waymap,
                   no_json_err, cerr, way_ids, end_reads>>

\* lines 345-358: the output buffer is handed to the Writer, node_ids is
\* sorted and deduplicated, the node Reader is opened and the cursor set
Pass2End ==
    /\ pc = "pass2"
    /\ i > Len(ways)
    /\ writer' = WriterBuffer(writer, output_buffer)
    /\ output_buffer' = <<>>
    /\ LET u == Unique(Sort(node_ids))
       IN  /\ node_ids' = u.arr
           /\ last' = u.last
    /\ first' = 1
    /\ i' = 1
    /\ vout' = vout \o <<Message("Preparing node ID list", 0), Message("Reading nodes", 0)>>
    /\ pc' = "pass3"
    /\ UNCHANGED <<changefile, relations, ways, nodes, yesborder, noborder, waymap,
                   no_json_err, cerr, way_ids, end_reads>>

\* lines 359-371: std::copy_if with the merge predicate, for the next node
Pass3Node ==
    /\ pc = "pass3"
    /\ i <= Len(nodes)
    /\ LET node == nodes[i]
           c    == Advance(node_ids, first, last, node.id)
       IN  \E r \in Deref(node_ids, c, MaxNodeId) :
            /\ end_reads' = (end_reads \/ c = last)
            /\ IF r.trap
               THEN /\ pc' = "fault"
                    /\ first' = c
                    /\ UNCHANGED <<i, writer>>
               ELSE /\ pc' = pc
                    /\ i' = i + 1
                    /\ IF node.id = r.value
                       THEN /\ writer' = WriterItem(writer, node)
                            /\ first' = IF c # last THEN c + 1 ELSE c
                       ELSE /\ first' = c
                            /\ UNCHANGED writer
    /\ UNCHANGED <<changefile, relations, ways, nodes, yesborder, noborder, waymap,
                   no_json_err, cerr, vout, way_ids, node_ids, last, output_buffer>>

\* what osmium::MemoryUsage reports (lines 383-384), in MBytes; current() is
\* 0 where the platform gives no reading
MemoryReadings ==
    { [current |-> 0, peak |-> 0], [current |-> 5, peak |-> 5], [current |-> 5, peak |-> 6] }

\* lines 382-387: what main hands to vout after the try block
ClosingMessages(mem) ==
    <<Message("All done.", 0)>> \o
    (IF mem.current > 0
     THEN <<Message("Memory used: current", mem.current), Message("peak", mem.peak)>>
     ELSE <<>>)

\* lines 373-387 without writer.close(): the pending buffer is never flushed
Pass3EndUnclosed ==
    /\ pc = "pass3"
    /\ i > Len(nodes)
    /\ \E mem \in MemoryReadings : vout' = vout \o ClosingMessages(mem)
    /\ pc' = "done"
    /\ UNCHANGED <<changefile, relations, ways, nodes, yesborder, noborder, waymap,
                   no_json_err, cerr, way_ids, node_ids, first, last, i,
                   output_buffer, writer, end_reads>>

\* lines 373-387: the node Reader and the Writer are closed, the end of the
\* run and the memory used are reported
Pass3End ==
    /\ pc = "pass3"
    /\ i > Len(nodes)
    /\ writer' = WriterClose(writer)
    /\ \E mem \in MemoryReadings : vout' = vout \o ClosingMessages(mem)
    /\ pc' = "done"
    /\ UNCHANGED <<changefile, relations, ways, nodes, yesborder, noborder, waymap,
                   no_json_err, cerr, way_ids, node_ids, first, last, i,
                   output_buffer, end_reads>>

\* the operations that can raise osmium::io_error in the try block: those of
\* the Reader (open, read, close) and those of the Writer (open, write, close)
IoOperations == {"read", "write"}

\* line 378: the line written to std::cerr
IoErrorLine(op) == IF op = "read" THEN "io error: read" ELSE "io error: write"

\* lines 377-380 without std::exit: main goes on after the catch block
CatchIoErrorNoExit(err, op) ==
    /\ cerr' = Append(err, IoErrorLine(op))
    /\ pc' = "done"

\* lines 377-380: the catch block reports the error after the lines `err`
\* already written and ends the program with return_code_fatal
CatchIoError(err, op) ==
    /\ cerr' = Append(err, IoErrorLine(op))
    /\ pc' = "fatal"

\* lines 215-275: the changefile is loaded, then the Writer's constructor
\* (line 275, in the try block) throws: no Writer, nothing handed to vout
WriterOpenError ==
    /\ pc = "args"
    /\ LET r == IF changefile.given THEN jsonize(changefile)
                ELSE Loaded(TRUE, {}, {}, EmptyWaymap)
       IN  /\ yesborder' = r.yes
           /\ noborder' = r.no
           /\ waymap' = r.waymap
           /\ no_json_err' = r.ok
           /\ CatchIoError(IF r.ok THEN cerr
                           ELSE Append(cerr, "changefile gave error, not using"),
                           "write")
    /\ UNCHANGED <<changefile, relations, ways, nodes, vout, way_ids, node_ids, first,
                   last, i, output_buffer, writer, end_reads>>

\* the Reader of a pass throws when it is opened, when it reads the next
\* entity or the end of the stream, or when it is closed: between two
\* iterations.  The try block is left and the Writer, which is in order, is
\* destroyed.
ReadError ==
    /\ pc \in {"pass1", "pass2", "pass3"}
    /\ writer' = WriterDestroy(writer)
    /\ CatchIoError(cerr, "read")
    /\ UNCHANGED <<changefile, relations, ways, nodes, yesborder, noborder, waymap,
                   no_json_err, vout, way_ids, node_ids, first, last, i, output_buffer,
                   end_reads>>

\* lines 290-300: the write of a selected relation (line 300) throws, after
\* the diagnostic of line 297 and before the members are collected
Pass1WriteError ==
    /\ pc = "pass1"
    /\ i <= Len(relations)
    /\ LET relation == relations[i]
       IN  /\ ~is_rejected(relation)
           /\ is_selected(relation)
           /\ vout' = IF is_forced(relation)
                      THEN Append(vout, Message("Added relation", relation.id))
                      ELSE vout
    /\ writer' = WriterFailed(writer)
    /\ CatchIoError(cerr, "write")
    /\ UNCHANGED <<changefile, relations, ways, nodes, yesborder, noborder, waymap,
                   no_json_err, way_ids, node_ids, first, last, i, output_buffer,
                   end_reads>>

\* line 345: handing the output buffer to the Writer throws
Pass2WriteError ==
    /\ pc = "pass2"
    /\ i > Len(ways)
    /\ writer' = WriterFailed(writer)
    /\ CatchIoError(cerr, "write")
    /\ UNCHANGED <<changefile, relations, ways, nodes, yesborder, noborder, waymap,
                   no_json_err, vout, way_ids, node_ids, first, last, i, output_buffer,
                   end_reads>>

\* lines 359-369: the predicate has selected the node (the cursor has moved)
\* and the write of the node by std::copy_if throws
Pass3WriteError ==
    /\ pc = "pass3"
    /\ i <= Len(nodes)
    /\ LET node == nodes[i]
           c    == Advance(node_ids, first, last, node.id)
       IN  \E r \in Deref(node_ids, c, MaxNodeId) :
            /\ ~r.trap
            /\ node.id = r.value
            /\ end_reads' = (end_reads \/ c = last)
            /\ first' = IF c # last THEN c + 1 ELSE c
    /\ writer' = WriterFailed(writer)
    /\ CatchIoError(cerr, "write")
    /\ UNCHANGED <<changefile, relations, ways, nodes, yesborder, noborder, waymap,
                   no_json_err, vout, way_ids, node_ids, last, i, output_buffer>>

\* line 375: writer.close() throws
CloseError ==
    /\ pc = "pass3"
    /\ i > Len(nodes)
    /\ writer' = WriterFailed(writer)
    /\ CatchIoError(cerr, "write")
    /\ UNCHANGED <<changefile, relations, ways, nodes, yesborder, noborder, waymap,
                   no_json_err, vout, way_ids, node_ids, first, last, i, output_buffer,
                   end_reads>>

Next ==
    \/ ParseArgs
    \/ Pass1Relation
    \/ Pass1End
    \/ Pass2Way
    \/ Pass2End
    \/ Pass3Node
    \/ Pass3End
    \/ WriterOpenError
    \/ ReadError
    \/ Pass1WriteError
    \/ Pass2WriteError
    \/ Pass3WriteError
    \/ CloseError

Spec == Init /\ [][Next]_vars

\* the program started with -c on a generated changefile and an input file
\* without entities, followed up to the end of the load
InitJson ==
    /\ pc = "args"
    /\ changefile \in JsonDocs
    /\ relations = <<>>
    /\ ways = <<>>
    /\ nodes = <<>>
    /\ yesborder = {}
    /\ noborder = {}
    /\ waymap = EmptyWaymap
    /\ no_json_err = TRUE
    /\ cerr = <<>>
    /\ vout = <<>>
    /\ way_ids = <<>>
    /\ node_ids = <<>>
    /\ first = 0
    /\ last = 0
    /\ i = 0
    /\ output_buffer = <<>>
    /\ writer = [status |-> "unopened", header |-> "", m_buffer |-> <<>>, file |-> <<>>]
    /\ end_reads = FALSE

NextJson == ParseArgs

SpecJson == InitJson /\ [][NextJson]_vars

\* the override tables a second run may be given
OverrideTables ==
    { EmptyWaymap,
      jsonize(DocA).waymap,
      [w \in {3} |-> [k \in {"name"} |-> "X"]] }

\* the program is run on an input file with at most the relation 1, without
\* a changefile or with DocA
InitTwice ==
    /\ Init
    /\ changefile \in {NoChangefile, DocA}
    /\ \A k \in 1..Len(relations) : relations[k].id = 1

\* the program is run a second time on the same input file with the same
\* allow-set and deny-set and an override table of OverrideTables, its
\* output following that of the first run; the message records where the
\* output of the first run ends
RunAgain ==
    /\ pc = "done"
    /\ \A k \in 1..Len(vout) : vout[k].text # "Second run"
    /\ waymap' \in OverrideTables
    /\ writer' = [writer EXCEPT !.status = "open"]
    /\ vout' = vout \o <<Message("Second run", Len(writer.file)),
                          Message("Reading relations", 0)>>
    /\ way_ids' = <<>>
    /\ node_ids' = <<>>
    /\ i' = 1
    /\ pc' = "pass1"
    /\ UNCHANGED <<changefile, relations, ways, nodes, yesborder, noborder,
                   no_json_err, cerr, first, last, output_buffer, end_reads>>

NextTwice ==
    \/ Next
    \/ RunAgain

SpecTwice == InitTwice /\ [][NextTwice]_vars

-----------------------------------------------------------------------------
(* Vocabulary of the properties *)

OfKind(s, kind) == SelectSeq(s, LAMBDA e : e.kind = kind)

IdsOf(s) == [k \in 1..Len(s) |-> s[k].id]

Range(s) == {s[k] : k \in 1..Len(s)}

\* everything selected so far, wherever it is buffered
Emitted == writer.file \o writer.m_buffer \o output_buffer

EmittedRelations == OfKind(Emitted, "relation")
EmittedWays == OfKind(Emitted, "way")
EmittedNodes == OfKind(Emitted, "node")

\* the deduplicated target range [begin, last) of a pass
Targets(ids) == Range(SubSeq(ids, 1, last - 1))

\* the entities of s[1..n] whose identifier is in T, in stream order
Intersection(s, n, T) == SelectSeq(SubSeq(s, 1, n), LAMBDA e : e.id \in T)

\* the relations the relation loop has been through
Processed ==
    IF pc = "args" THEN {}
    ELSE IF Message("Reading ways", 0) \notin Range(vout)
         THEN Range(SubSeq(relations, 1, i - 1))
    ELSE Range(relations)

LoadFailed == changefile.given /\ ~jsonize_try(changefile).ok

\* an operation of the try block has raised osmium::io_error
IoFailed == \E op \in IoOperations : IoErrorLine(op) \in Range(cerr)

-----------------------------------------------------------------------------
(* Properties *)

\* C1: on a sorted duplicate-free target list and a sorted unique stream the
\* selected entities are exactly the stream's entities whose identifier is in
\* the target list, in stream order (ways in pass 2, nodes in pass 3).
C1_SelectedIsIntersection ==
    /\ pc = "pass2" =>
          IdsOf(output_buffer) = IdsOf(Intersection(ways, i - 1, Targets(way_ids)))
    /\ pc \in {"pass3", "done"} =>
          IdsOf(EmittedNodes) = IdsOf(Intersection(nodes, i - 1, Targets(node_ids)))

\* C2: an emitted way that has an override record carries every input tag
\* whose key is not in the record and, for every key of the record, exactly
\* one tag, with the record's value.
C2_OverrideReplaces ==
    \A k \in 1..Len(EmittedWays) :
        LET e == EmittedWays[k]
        IN  e.id \in DOMAIN waymap =>
              /\ \A w \in Range(ways) : w.id = e.id =>
                    \A t \in Range(w.tags) :
                        t[1] \notin DOMAIN waymap[e.id] => t \in Range(e.tags)
              /\ \A key \in DOMAIN waymap[e.id] :
                    /\ Cardinality({j \in 1..Len(e.tags) : e.tags[j][1] = key}) = 1
                    /\ <<key, waymap[e.id][key]>> \in Range(e.tags)

\* C3: a relation in the deny-set is never emitted and contributes no way
\* identifier to the target list, whatever the allow-set and its tags say:
\* every emitted relation is outside the deny-set and every collected way
\* identifier is a way member of an input relation outside the deny-set.
C3_DenyPrecedence ==
    /\ \A k \in 1..Len(EmittedRelations) : EmittedRelations[k].id \notin noborder
    /\ \A w \in Range(way_ids) :
          \E r \in Range(relations) :
              r.id \notin noborder /\ w \in Range(way_members(r))

\* C3 witness: a relation that is in the deny-set and the allow-set, carries
\* boundary=administrative and has way members has been through pass 1.
C3_Witness ==
    /\ pc = "pass2"
    /\ \E r \in Range(relations) :
          /\ r.id \in noborder \cap yesborder
          /\ has_tag(r.tags, "boundary", "administrative")
          /\ way_members(r) # <<>>

\* C4: when the run ends, the output holds exactly the relations outside the
\* deny-set that are in the allow-set or tagged boundary=administrative, the
\* input ways that are way members of an emitted relation, and the input
\* nodes referenced by an emitted way.
C4_OutputIsReachableSet ==
    pc \in {"done", "fault"} =>
        /\ Range(OfKind(writer.file, "relation")) =
              {r \in Range(relations) :
                  /\ r.id \notin noborder
                  /\ r.id \in yesborder \/ has_tag(r.tags, "boundary", "administrative")}
        /\ Range(IdsOf(OfKind(writer.file, "way"))) =
              {w.id : w \in {x \in Range(ways) :
                  \E r \in Range(OfKind(writer.file, "relation")) :
                      x.id \in Range(way_members(r))}}
        /\ Range(IdsOf(OfKind(writer.file, "node"))) =
              {n.id : n \in {x \in Range(nodes) :
                  \E w \in Range(OfKind(writer.file, "way")) : x.id \in Range(w.nodes)}}

\* C5: a pass that starts with an empty target list goes through its stream
\* and selects and emits no entity of it.
C5_EmptyTargetSelectsNothing ==
    /\ pc = "pass2" /\ last = 1 => output_buffer = <<>>
    /\ pc \in {"pass3", "done"} /\ last = 1 => EmittedNodes = <<>>
    /\ pc = "fault" => last # 1

\* C6: the filter never reads the target value at the cursor while the cursor
\* equals the end of the deduplicated target range.
C6_NoReadAtEnd == ~end_reads

\* C7: when loading the changefile raises an exception, then after the load
\* the allow-set, the deny-set and the override table are empty, the failure
\* is reported, and the run goes on through the passes instead of aborting
\* (it never stops with a fault, and it ends fatal only when an I/O
\* operation failed) with no allow, deny or override behaviour: every
\* emitted relation carries boundary=administrative,
\* no relation is rejected or force-added, emitted ways keep their input tags.
C7_ConfigFailureRecovered ==
    LoadFailed /\ pc # "args" =>
        /\ yesborder = {} /\ noborder = {} /\ waymap = EmptyWaymap
        /\ no_json_err = FALSE
        /\ cerr # <<>> /\ Head(cerr) = "changefile gave error, not using"
        /\ pc # "fault"
        /\ (writer.status = "unopened" \/ pc = "fatal") => IoFailed
        /\ \A m \in Range(vout) : m.text \notin {"Rejected relation", "Added relation"}
        /\ \A r \in Range(EmittedRelations) :
              has_tag(r.tags, "boundary", "administrative")
        /\ \A e \in Range(EmittedWays) :
              \E w \in Range(ways) : w.id = e.id /\ w.tags = e.tags

\* C8: a relation in the allow-set and outside the deny-set is emitted and
\* its way members are collected even without boundary=administrative, and
\* the "Added relation" diagnostic is made for a relation exactly when it is
\* in the allow-set, outside the deny-set and lacks boundary=administrative.
C8_ForcedInclusion ==
    \A r \in Processed :
        /\ r.id \in yesborder /\ r.id \notin noborder =>
              /\ r \in Range(EmittedRelations)
              /\ Range(way_members(r)) \subseteq Range(way_ids)
        /\ Message("Added relation", r.id) \in Range(vout) <=>
              /\ r.id \in yesborder
              /\ r.id \notin noborder
              /\ ~has_tag(r.tags, "boundary", "administrative")

\* C8 witness: the run has force-added an untagged relation with way members
\* and has also selected a relation by its tag.
C8_Witness ==
    /\ pc = "pass2"
    /\ \E r \in Range(relations) :
          /\ r.tags = <<>>
          /\ way_members(r) # <<>>
          /\ Message("Added relation", r.id) \in Range(vout)
          /\ r \in Range(EmittedRelations)
    /\ \E r \in Range(EmittedRelations) :
          r.id \notin yesborder /\ has_tag(r.tags, "boundary", "administrative")

\* C9: every emitted way has the identifier and the ordered node references
\* of its input way, with or without an override record; every emitted
\* relation has its input's member list and every emitted node its input's
\* coordinate.
C9_OnlyTagsChange ==
    /\ \A e \in Range(EmittedWays) :
          \E w \in Range(ways) : w.id = e.id /\ w.nodes = e.nodes
    /\ \A e \in Range(EmittedRelations) :
          \E r \in Range(relations) : r.id = e.id /\ r.members = e.members
    /\ \A e \in Range(EmittedNodes) :
          \E n \in Range(nodes) : n.id = e.id /\ n.location = e.location

\* C9 witness: the output holds a way rewritten from an override record that
\* has node references, a way without a record, a relation and a node.
C9_Witness ==
    /\ pc = "done"
    /\ \E e \in Range(OfKind(writer.file, "way")) :
          /\ e.id \in DOMAIN waymap
          /\ e.nodes # <<>>
          /\ \A w \in Range(ways) : w.tags # e.tags
    /\ \E e \in Range(OfKind(writer.file, "way")) : e.id \notin DOMAIN waymap
    /\ OfKind(writer.file, "relation") # <<>>
    /\ OfKind(writer.file, "node") # <<>>

KindRank(e) == IF e.kind = "relation" THEN 1 ELSE IF e.kind = "way" THEN 2 ELSE 3

\* C10: the file receives every emitted relation before any emitted way and
\* every emitted way before any emitted node, each kind in input stream
\* order; no relation is still pending in the Writer once a way is in the
\* file, no way is still in the output buffer once a node was submitted.
C10_SinkOrder ==
    /\ \A a, b \in 1..Len(writer.file) :
          a < b =>
            /\ KindRank(writer.file[a]) <= KindRank(writer.file[b])
            /\ writer.file[a].kind = writer.file[b].kind =>
                  writer.file[a].id < writer.file[b].id
    /\ OfKind(writer.file, "way") # <<>> => OfKind(writer.m_buffer, "relation") = <<>>
    /\ EmittedNodes # <<>> => output_buffer = <<>>
    /\ pc = "done" => writer.m_buffer = <<>>

\* C10 witness: a finished run whose file holds a relation, a way and a
\* node, the relation having been pending in the Writer when the ways were
\* handed over (fewer relations than the pending buffer holds).
C10_Witness ==
    /\ pc = "done"
    /\ Len(OfKind(writer.file, "relation")) = 1
    /\ Len(OfKind(writer.file, "way")) >= 2
    /\ Len(OfKind(writer.file, "node")) >= 2

\* the input file holds no relation, no way and no node
EmptyInput == relations = <<>> /\ ways = <<>> /\ nodes = <<>>

\* C11: on an input without relations, ways and nodes the run goes through
\* the three passes without a fault and without reading a target value at
\* the end of a list, it stops only in a final state, and when it is done the
\* sink is closed and holds the header and no entity.
C11_EmptyInput ==
    EmptyInput =>
        /\ pc # "fault"
        /\ ~end_reads
        /\ pc \notin {"done", "fatal"} => ENABLED Next
        /\ Emitted = <<>>
        /\ pc = "done" =>
              /\ writer.status = "closed"
              /\ writer.header = "osmborder_filter"
              /\ writer.file = <<>>
              /\ Message("All done.", 0) \in Range(vout)

\* C11 witness: a run on an empty input that has been through the three
\* passes and is done.
C11_Witness ==
    /\ EmptyInput
    /\ pc = "done"
    /\ {Message("Reading relations", 0), Message("Reading ways", 0),
        Message("Reading nodes", 0)} \subseteq Range(vout)

\* the messages of v that report the start of a pass or the end of the run
PassMessages(v) ==
    SelectSeq(v, LAMBDA m : m.text \in {"Reading relations", "Reading ways",
                                         "Reading nodes", "All done."})

\* the step in which an operation fails starts no pass, reports no success
\* and submits no entity
FailingStep ==
    IoFailed' /\ ~IoFailed =>
        /\ PassMessages(vout') = PassMessages(vout)
        /\ output_buffer' = output_buffer
        /\ writer'.file \o writer'.m_buffer = writer.file \o writer.m_buffer

\* C12: once an operation of the try block has failed the run is in the
\* fatal outcome and nothing runs any more (no later pass is started,
\* nothing more is emitted) and success has not been and is never reported;
\* the failing step itself starts no pass and submits no entity.
C12_IoFailureFatal ==
    /\ [](IoFailed =>
            /\ pc = "fatal"
            /\ ~ENABLED Next
            /\ Message("All done.", 0) \notin Range(vout))
    /\ [][FailingStep]_vars

\* C12 witness: the write of a force-added relation failed in pass 1 after
\* its diagnostic was made: the relation is not in the output and pass 2
\* was not started.
C12_Witness ==
    /\ pc = "fatal"
    /\ "io error: write" \in Range(cerr)
    /\ \E r \in Range(relations) :
          /\ Message("Added relation", r.id) \in Range(vout)
          /\ r \notin Range(Emitted)
    /\ Message("Reading ways", 0) \notin Range(vout)

\* the identifiers a relation refers to as members of kind way
WayRefs(r) == {r.members[k].ref : k \in {j \in 1..Len(r.members) : r.members[j].type = "way"}}

\* number of entities of a kind in s that carry the identifier id
Copies(s, kind, id) == Cardinality({k \in 1..Len(s) : s[k].kind = kind /\ s[k].id = id})

\* C13: no identifier of a kind is emitted twice; once pass 2 is over every
\* input way that a way member of an emitted relation refers to, however
\* often, is in the output exactly once, and when the run is done every input
\* node that an emitted way refers to, however often, is in the output
\* exactly once.
C13_DuplicateReferences ==
    /\ \A e \in Range(Emitted) : Copies(Emitted, e.kind, e.id) = 1
    /\ pc \in {"pass3", "done"} =>
          \A w \in Range(ways) :
              (\E r \in Range(EmittedRelations) : w.id \in WayRefs(r)) =>
                  Copies(writer.file, "way", w.id) = 1
    /\ pc = "done" =>
          \A n \in Range(nodes) :
              (\E w \in Range(EmittedWays) : n.id \in Range(w.nodes)) =>
                  Copies(writer.file, "node", n.id) = 1

\* C13 witness: a finished run that emitted a way to which one emitted
\* relation refers twice and another emitted relation refers as well, a node
\* to which one emitted way refers twice and a node to which two emitted ways
\* refer.
C13_Witness ==
    /\ pc = "done"
    /\ \E w \in Range(OfKind(writer.file, "way")) :
          \E r1, r2 \in Range(OfKind(writer.file, "relation")) :
              /\ r1 # r2
              /\ w.id \in WayRefs(r2)
              /\ Cardinality({k \in 1..Len(r1.members) :
                                r1.members[k] = Member("way", w.id)}) >= 2
    /\ \E n \in Range(OfKind(writer.file, "node")) :
          \E w \in Range(OfKind(writer.file, "way")) :
              Cardinality({k \in 1..Len(w.nodes) : w.nodes[k] = n.id}) >= 2
    /\ \E n \in Range(OfKind(writer.file, "node")) :
          \E w1, w2 \in Range(OfKind(writer.file, "way")) :
              w1 # w2 /\ n.id \in Range(w1.nodes) /\ n.id \in Range(w2.nodes)

\* the identifiers the emitted relations refer to as members of kind way
EmittedWayRefs == UNION {WayRefs(r) : r \in Range(EmittedRelations)}

\* the node identifiers the emitted ways refer to
EmittedNodeRefs == UNION {Range(w.nodes) : w \in Range(EmittedWays)}

\* C14: the way-id list holds only identifiers that an emitted relation
\* refers to as a member of kind way (never those of its node or relation
\* members), the node-id list only identifiers that an emitted way refers to
\* as a node; a way is emitted only on such a way reference and a node only
\* on such a node reference, the one other selection being that of an entity
\* beyond every reference of its kind, made on a value read at the end of
\* the list.
C14_KindsNotConflated ==
    /\ Range(way_ids) \subseteq EmittedWayRefs
    /\ Range(node_ids) \subseteq EmittedNodeRefs
    /\ \A e \in Range(EmittedWays) :
          \/ e.id \in EmittedWayRefs
          \/ end_reads /\ \A t \in EmittedWayRefs : t < e.id
    /\ \A e \in Range(EmittedNodes) :
          \/ e.id \in EmittedNodeRefs
          \/ end_reads /\ \A t \in EmittedNodeRefs : t < e.id

\* C14 witness: a finished run in which an emitted relation has a member
\* that is not a way and whose identifier is that of an input way to which
\* no emitted relation refers, and that way is not in the output; and in
\* which an emitted way has the identifier of an input node to which no
\* emitted way refers, and that node is not in the output.
C14_Witness ==
    /\ pc = "done"
    /\ \E r \in Range(OfKind(writer.file, "relation")) :
          \E k \in 1..Len(r.members) :
              /\ r.members[k].type # "way"
              /\ r.members[k].ref \notin EmittedWayRefs
              /\ r.members[k].ref \in Range(IdsOf(ways))
              /\ Copies(writer.file, "way", r.members[k].ref) = 0
    /\ \E w \in Range(OfKind(writer.file, "way")) :
          /\ w.id \notin EmittedNodeRefs
          /\ w.id \in Range(IdsOf(nodes))
          /\ Copies(writer.file, "node", w.id) = 0
    /\ OfKind(writer.file, "node") # <<>>

\* the load of the changefile has been made on a readable document whose top
\* level is an object
Ingested == pc # "args" /\ changefile.given /\ changefile.readable /\ changefile.top = "object"

\* the elements of a "relations" or "ways" member that the loops look at:
\* the objects that have an identifier field
Entries(member) ==
    IF member.array
    THEN {k \in 1..Len(member.items) :
            member.items[k].object /\ "osm_id" \in DOMAIN member.items[k].fields}
    ELSE {}

\* the entry has the boolean field `flag` with the value true
Flagged(e, flag) == flag \in DOMAIN e.fields /\ e.fields[flag] = JBool(TRUE)

\* the string-valued fields of a ways entry other than the identifier field
StringFields(e) ==
    [k \in {x \in DOMAIN e.fields : x # "osm_id" /\ e.fields[x].type = "string"}
        |-> e.fields[k].str]

\* C15 as stated: after a successful load the allow-set holds exactly the
\* identifiers of the relations entries with whitelist true, the deny-set
\* those with blacklist true, and the override table maps the identifier of
\* each ways entry to exactly the string-valued fields of that entry other
\* than the identifier field.
C15_ConfigIngestion ==
    Ingested /\ no_json_err =>
        LET R == changefile.relations.items
            W == changefile.ways.items
        IN  /\ yesborder = {R[k].fields["osm_id"].num :
                              k \in {j \in Entries(changefile.relations) :
                                        Flagged(R[j], "whitelist")}}
            /\ noborder = {R[k].fields["osm_id"].num :
                              k \in {j \in Entries(changefile.relations) :
                                        Flagged(R[j], "blacklist")}}
            /\ DOMAIN waymap = {W[k].fields["osm_id"].num : k \in Entries(changefile.ways)}
            /\ \A k \in Entries(changefile.ways) :
                  waymap[W[k].fields["osm_id"].num] = StringFields(W[k])

\* C15 amended: the same, the override table mapping each identifier to the
\* string-valued fields of the last ways entry that carries it.
C15_ConfigIngestionLastWins ==
    Ingested /\ no_json_err =>
        LET R == changefile.relations.items
            W == changefile.ways.items
        IN  /\ yesborder = {R[k].fields["osm_id"].num :
                              k \in {j \in Entries(changefile.relations) :
                                        Flagged(R[j], "whitelist")}}
            /\ noborder = {R[k].fields["osm_id"].num :
                              k \in {j \in Entries(changefile.relations) :
                                        Flagged(R[j], "blacklist")}}
            /\ DOMAIN waymap = {W[k].fields["osm_id"].num : k \in Entries(changefile.ways)}
            /\ \A k \in Entries(changefile.ways) :
                  (\A j \in Entries(changefile.ways) :
                      j > k => W[j].fields["osm_id"] # W[k].fields["osm_id"])
                  => waymap[W[k].fields["osm_id"].num] = StringFields(W[k])

\* C15 witness: a successful load of a document with a whitelisted and a
\* blacklisted relation and two ways entries for one identifier, the second
\* with other string fields and a field that is not a string.
C15_Witness ==
    /\ Ingested /\ no_json_err
    /\ yesborder # {} /\ noborder # {}
    /\ Len(changefile.ways.items) = 2
    /\ LET W == changefile.ways.items
       IN  /\ Entries(changefile.ways) = {1, 2}
           /\ W[1].fields["osm_id"] = W[2].fields["osm_id"]
           /\ StringFields(W[1]) # StringFields(W[2])
           /\ \E x \in DOMAIN W[2].fields :
                 x # "osm_id" /\ W[2].fields[x].type # "string"

\* the entry has a whitelist or blacklist field that is not a boolean
BadFlag(e) ==
    \E flag \in {"whitelist", "blacklist"} :
        flag \in DOMAIN e.fields /\ e.fields[flag].type # "boolean"

\* the entry has an identifier field that is not a number
BadId(e) == e.fields["osm_id"].type # "number"

\* C20 as stated: the load fails when a relations entry has a whitelist or
\* blacklist field that is not a boolean or a relations or ways entry has an
\* identifier field that is not a number, and then the allow-set, the
\* deny-set and the override table are empty; it does not fail otherwise,
\* elements without an identifier field and elements that are not objects
\* being skipped.
C20_AllOrNothing ==
    Ingested =>
        LET R == changefile.relations.items
            W == changefile.ways.items
            bad == \/ \E k \in Entries(changefile.relations) : BadFlag(R[k]) \/ BadId(R[k])
                   \/ \E k \in Entries(changefile.ways) : BadId(W[k])
        IN  /\ no_json_err <=> ~bad
            /\ ~no_json_err => yesborder = {} /\ noborder = {} /\ waymap = EmptyWaymap

\* C20 amended: as stated, except that an identifier that is not a number
\* fails the load for a ways entry and for a relations entry whose whitelist
\* or blacklist is true; a relations entry with such an identifier and
\* neither flag true does not fail the load.
C20_AllOrNothingFlagged ==
    Ingested =>
        LET R == changefile.relations.items
            W == changefile.ways.items
            bad == \/ \E k \in Entries(changefile.relations) :
                         \/ BadFlag(R[k])
                         \/ BadId(R[k]) /\ (Flagged(R[k], "whitelist") \/ Flagged(R[k], "blacklist"))
                   \/ \E k \in Entries(changefile.ways) : BadId(W[k])
        IN  /\ no_json_err <=> ~bad
            /\ ~no_json_err => yesborder = {} /\ noborder = {} /\ waymap = EmptyWaymap

\* C20 witness: a load that failed on its last ways entry after it had taken
\* a relations entry with an identifier that is not a number and no true
\* flag, had filled the allow-set or the deny-set and the override table.
C20_Witness ==
    /\ Ingested /\ ~no_json_err
    /\ \E k \in Entries(changefile.relations) :
          /\ BadId(changefile.relations.items[k])
          /\ ~BadFlag(changefile.relations.items[k])
          /\ ~Flagged(changefile.relations.items[k], "whitelist")
    /\ jsonize_try(changefile).yes \cup jsonize_try(changefile).no # {}
    /\ jsonize_try(changefile).waymap # EmptyWaymap
    /\ yesborder = {} /\ noborder = {} /\ waymap = EmptyWaymap

\* the target list of the pass the run is in
TargetList == IF pc = "pass2" THEN way_ids ELSE node_ids

\* a step of pass 2 or pass 3 never moves the cursor backwards and moves it
\* only over elements that are not greater than the entity of the step
CursorStep ==
    pc \in {"pass2", "pass3"} /\ pc' = pc =>
        /\ first' >= first
        /\ \A k \in first..(first' - 1) :
              TargetList[k] <= (IF pc = "pass2" THEN ways[i].id ELSE nodes[i].id)

\* C18: in pass 2 and pass 3 the cursor is within the deduplicated range
\* (begin <= cursor <= last <= end of the vector), so that it has advanced
\* at most as often as the range has elements; a step of a pass never moves
\* it backwards and moves it only over elements that are not greater than
\* the entity of the step.
C18_CursorDiscipline ==
    /\ [](pc \in {"pass2", "pass3"} =>
            /\ 1 <= first /\ first <= last /\ last <= Len(TargetList) + 1
            /\ first - 1 <= Cardinality(Targets(TargetList)))
    /\ [][CursorStep]_vars

\* C18 witness: pass 2 with the cursor at the end of a deduplicated range of
\* two elements that is shorter than the vector, after a read at the end.
C18_Witness ==
    /\ pc = "pass2"
    /\ first = last
    /\ last = 3
    /\ Len(way_ids) >= last
    /\ end_reads

\* number of messages with the text `text` handed to vout
Said(text) == Cardinality({k \in 1..Len(vout) : vout[k].text = text})

\* the range [1, last) of a target list is strictly ascending
Ascending(ids) == \A a, b \in 1..(last - 1) : a < b => ids[a] < ids[b]

\* C17: as long as no operation fails the run goes on until it is done: it
\* never stops in a state that is not the terminal one; the three passes are
\* started once each and in order, pass 2 on a sorted way-id list, pass 3 on
\* a sorted duplicate-free node-id list; in the terminal state the sink is
\* closed with nothing pending, the nodes last.
C17_PassProtocol ==
    ~IoFailed =>
        /\ pc # "done" => ENABLED (Next /\ pc' # "fatal")
        /\ Said("Reading relations") = (IF pc = "args" THEN 0 ELSE 1)
        /\ Said("Reading ways") = (IF pc \in {"args", "pass1"} THEN 0 ELSE 1)
        /\ Said("Reading nodes") <= 1
        /\ Said("Reading nodes") = 1 => Said("Reading ways") = 1 /\ pc \notin {"pass1", "pass2"}
        /\ pc = "pass2" => Ascending(way_ids)
        /\ pc \in {"pass3", "done"} => Ascending(node_ids)
        /\ writer.status = "closed" <=> pc = "done"
        /\ pc = "done" => writer.m_buffer = <<>> /\ output_buffer = <<>>

\* where the output of the first of two runs ends in the file (0: one run)
FirstRunEnd ==
    IF \E k \in 1..Len(vout) : vout[k].text = "Second run"
    THEN (CHOOSE m \in Range(vout) : m.text = "Second run").id
    ELSE 0

\* the outputs of the first and of the second run
FirstRun == SubSeq(writer.file, 1, FirstRunEnd)
SecondRun == SubSeq(writer.file, FirstRunEnd + 1, Len(writer.file))

\* both runs are done
TwiceDone == pc = "done" /\ \E k \in 1..Len(vout) : vout[k].text = "Second run"

\* the table the first run loaded
FirstTable == IF changefile.given THEN jsonize(changefile).waymap ELSE EmptyWaymap

\* C16: two runs on the same input file with the same tables filter the way
\* stream against the same way-id list and select the same ways, and where
\* they then filter the node stream against the same node-id list they
\* select the same nodes.
C16_FilterDeterministic ==
    TwiceDone /\ waymap = FirstTable =>
        /\ IdsOf(OfKind(FirstRun, "way")) = IdsOf(OfKind(SecondRun, "way"))
        /\ { Range(w.nodes) : w \in Range(OfKind(FirstRun, "way")) }
             = { Range(w.nodes) : w \in Range(OfKind(SecondRun, "way")) }
           => IdsOf(OfKind(FirstRun, "node")) = IdsOf(OfKind(SecondRun, "node"))

\* the identifier and the node references of each way of s
WayShapes(s) == { <<w.id, w.nodes>> : w \in Range(OfKind(s, "way")) }

\* C19: two runs on the same input file with the same allow-set and
\* deny-set and any two override tables emit the same relations, the same
\* way identifiers with the same node references and the same nodes; a way
\* that has an override record and to which no emitted relation refers is
\* not emitted.
C19_OverrideIndependence ==
    TwiceDone =>
        /\ OfKind(FirstRun, "relation") = OfKind(SecondRun, "relation")
        /\ WayShapes(FirstRun) = WayShapes(SecondRun)
        /\ OfKind(FirstRun, "node") = OfKind(SecondRun, "node")
        /\ \A w \in Range(OfKind(SecondRun, "way")) :
              w.id \in DOMAIN waymap =>
                  \E r \in Range(OfKind(SecondRun, "relation")) : w.id \in WayRefs(r)

====
